---- MODULE Spec2Model ----
(***************************************************************************)
(* YellowBox for React: the warning collector (src/src/common.js, and the  *)
(* older single-file index.js) and the overlay component that displays it  *)
(* (src/src/index.js).                                                     *)
(*                                                                         *)
(* JavaScript strings are sequences of one-character strings, so that      *)
(* startsWith, the %s substitution and join are computed, not assumed.     *)
(* JavaScript values are records tagged with their typeof.                 *)
(***************************************************************************)
EXTENDS Integers, Sequences, FiniteSets

\* ------------------------------------------------------------------ bounds
\* A key is recorded at most MaxCount times between two dismissals.
MaxCount == 2
\* A run makes at most MaxSteps operations.
MaxSteps == 6

\* ------------------------------------------------------------- JS values
Undefined == [t |-> "undefined"]
Null == [t |-> "null"]
Str(s) == [t |-> "string", v |-> s]
\* new String(s): typeof is "object", String(x) is s
BoxedStr(s) == [t |-> "object", cls |-> "String", v |-> s]
\* var o = {}; o.self = o
Circular == [t |-> "object", cls |-> "Circular"]

IsString(x) == x.t = "string"

\* the text 'Warning: ' of console.error's test
WarningPrefix == <<"W", "a", "r", "n", "i", "n", "g", ":", " ">>

\* String.prototype.startsWith
StartsWith(s, prefix) ==
  /\ Len(prefix) <= Len(s)
  /\ SubSeq(s, 1, Len(prefix)) = prefix

\* String(x), also the coercion of a replace callback's result
String(x) ==
  CASE x.t = "string" -> x.v
    [] x.t = "undefined" -> <<"u", "n", "d", "e", "f", "i", "n", "e", "d">>
    [] x.t = "null" -> <<"n", "u", "l", "l">>
    [] x.t = "object" /\ x.cls = "String" -> x.v
    [] OTHER -> <<"[", "o", "b", "j", "e", "c", "t", " ", "O", "b", "j", "e", "c", "t", "]">>

\* the number of matches of /%s/g in format
RECURSIVE CountPlaceholders(_)
CountPlaceholders(format) ==
  IF Len(format) < 2 THEN 0
  ELSE IF format[1] = "%" /\ format[2] = "s"
       THEN 1 + CountPlaceholders(SubSeq(format, 3, Len(format)))
       ELSE CountPlaceholders(Tail(format))

\* args[index] of a JavaScript array (0-based), undefined past its end
ArgAt(args, index) == IF index + 1 <= Len(args) THEN args[index + 1] ELSE Undefined

\* format.replace(/%s/g, match => args[index++]), from the given index on
RECURSIVE SprintfFrom(_, _, _)
SprintfFrom(format, args, index) ==
  IF Len(format) = 0 THEN <<>>
  ELSE IF Len(format) >= 2 /\ format[1] = "%" /\ format[2] = "s"
       THEN String(ArgAt(args, index))
              \o SprintfFrom(SubSeq(format, 3, Len(format)), args, index + 1)
       ELSE <<format[1]>> \o SprintfFrom(Tail(format), args, index)

sprintf(format, args) == SprintfFrom(format, args, 0)

\* Array.prototype.slice(from, to) with 0-based bounds, to exclusive
Slice(args, from, to) ==
  IF from >= Len(args) \/ from >= to THEN <<>>
  ELSE SubSeq(args, from + 1, IF to < Len(args) THEN to ELSE Len(args))

\* join(' ') of an array of JavaScript values; undefined and null give ''
RECURSIVE Join(_)
Join(parts) ==
  IF Len(parts) = 0 THEN <<>>
  ELSE LET first == IF parts[1].t \in {"undefined", "null"} THEN <<>> ELSE String(parts[1])
       IN IF Len(parts) = 1 THEN first ELSE first \o <<" ">> \o Join(Tail(parts))

\* json-stringify-safe with one argument: JSON.stringify with a serializer
\* that replaces a reference cycle by the text [Circular ~]
stringifySafe(arg) ==
  CASE arg.t = "undefined" -> Undefined
    [] arg.t = "null" -> Str(<<"n", "u", "l", "l">>)
    [] arg.t = "string" -> Str(<<"\"">> \o arg.v \o <<"\"">>)
    [] arg.t = "object" /\ arg.cls = "String" -> Str(<<"\"">> \o arg.v \o <<"\"">>)
    [] OTHER -> Str(<<"{", "\"", "s", "e", "l", "f", "\"", ":", "\"", "[",
                      "C", "i", "r", "c", "u", "l", "a", "r", " ", "~", "]",
                      "\"", "}">>)

\* ------------------------------------------------------- the Map of counts
\* a JavaScript Map<string, number>: its entries in insertion order
MapHas(m, warning) == \E i \in 1..Len(m) : m[i].warning = warning

\* Map.prototype.get: the count as a JavaScript value, undefined when absent
MapGet(m, warning) ==
  IF MapHas(m, warning)
  THEN [t |-> "number",
        v |-> m[CHOOSE i \in 1..Len(m) : m[i].warning = warning].count]
  ELSE Undefined

\* (mutant) set removes a present key and puts it back last
MapSetMovesLast(m, warning, count) ==
  LET Keep(e) == e.warning # warning
  IN Append(SelectSeq(m, Keep), [warning |-> warning, count |-> count])

\* Map.prototype.set: a present key keeps its place, a new key goes last
MapSet(m, warning, count) ==
  IF MapHas(m, warning)
  THEN [i \in 1..Len(m) |->
          IF m[i].warning = warning THEN [warning |-> warning, count |-> count] ELSE m[i]]
  ELSE Append(m, [warning |-> warning, count |-> count])

\* Map.prototype.delete
MapDelete(m, warning) ==
  LET Keep(e) == e.warning # warning IN SelectSeq(m, Keep)

\* ------------------------------------------------------------------ inputs
A == <<"a">>
WarningA == WarningPrefix \o A

\* the argument lists console.error and console.warn are called with
ConsoleArgs ==
  { <<Str(<<>>)>>,
    <<Str(A)>>,
    <<Str(WarningA)>>,
    <<Str(<<"%", "s">>), Str(A)>>,
    <<BoxedStr(WarningA)>> }

\* argument lists with an argument after those the placeholders take: a
\* text with no placeholder, then an object that refers to itself
TrailingConsoleArgs ==
  { <<Str(WarningA), Circular>> }

\* the values console.ignoredYellowBox is set to
IgnoreLists ==
  { Undefined,
    [t |-> "array", v |-> <<<<"A">>, WarningPrefix>>] }

\* the mounted instances of the component
Overlays == {"o1", "o2"}

\* ------------------------------------------------------------------- state
VARIABLES
  production,        \* process.env.NODE_ENV === 'production' at module load
  legacy,            \* TRUE: the single-file index.js; FALSE: src/common.js + src/index.js
  warningMap,        \* _warningMap
  listeners,         \* _warningEmitter's listeners of 'warning', in registration order
  ignoredYellowBox,  \* console.ignoredYellowBox
  disableYellowBox,  \* console.disableYellowBox
  status,            \* per instance: "new", "mounted", "unmounted"
  inspecting,        \* per instance: this.state.inspecting
  scheduled,         \* per instance: componentDidMount's `scheduled` is not null
  lastRender,        \* per instance: what its last render pass read and returned
  immediates,        \* the pending setImmediate callbacks, oldest first
  received,          \* history: per instance, the emits its listener got since its
                     \*          setImmediate callback last ran
  sinceAbsent,       \* history: per key, the record calls since the key was last absent
  lastRecorded,      \* history: _warningMap as the last updateWarningMap left it,
                     \*          [t |-> "none"] once a dismissal has changed it since
  lastOp,            \* history: the operation that produced this state
  steps              \* history: the operations so far

vars == <<production, legacy, warningMap, listeners, ignoredYellowBox,
          disableYellowBox, status, inspecting, scheduled, lastRender, immediates,
          received, sinceAbsent, lastRecorded, lastOp, steps>>

env == <<production, legacy>>

\* --------------------------------------------------------- the collector
\* ...args of updateWarningMap(format, ...args)
RestArgs(arguments) == Slice(arguments, 1, Len(arguments))

\* args.slice(argCount): the arguments after those the placeholders take
TrailingArgs(arguments) ==
  LET format == String(ArgAt(arguments, 0))
      args == RestArgs(arguments)
  IN Slice(args, CountPlaceholders(format), Len(args))

\* updateWarningMap's `warning`: the formatted text, then each trailing
\* argument serialized, joined by single spaces
WarningKey(arguments) ==
  LET format == String(ArgAt(arguments, 0))
      args == RestArgs(arguments)
      argCount == CountPlaceholders(format)
      trailing == TrailingArgs(arguments)
  IN Join(<<Str(sprintf(format, Slice(args, 0, argCount)))>>
            \o [i \in 1..Len(trailing) |-> stringifySafe(trailing[i])])

\* The single-file index.js passes stringifySafe itself to map, so it gets
\* (arg, index, array): the index becomes the replacer, and the serializer's
\* replacer.call raises a TypeError on the first value it visits.
StringifyThrows(isLegacy, arguments) == isLegacy /\ Len(TrailingArgs(arguments)) > 0

\* the key of each argument list of the inputs, computed once
KeyOf == [arguments \in ConsoleArgs \cup TrailingConsoleArgs |-> WarningKey(arguments)]

AllKeys == {KeyOf[arguments] : arguments \in ConsoleArgs}

\* the keys of the argument lists with a trailing argument
TrailingKeys == {KeyOf[arguments] : arguments \in TrailingConsoleArgs}

\* (mutant) the count of an absent key taken as 1 instead of 0
CountedFromOne(m, warning) ==
  MapSet(m, warning, (IF MapHas(m, warning) THEN MapGet(m, warning).v ELSE 1) + 1)

\* const count = has(warning) ? get(warning) : 0; set(warning, count + 1)
Counted(m, warning) ==
  MapSet(m, warning, (IF MapHas(m, warning) THEN MapGet(m, warning).v ELSE 0) + 1)

\* (mutant) the listener calls setImmediate on every emit
ListenerSchedulesAlways(isScheduled) == TRUE

\* the listener of componentDidMount: scheduled = scheduled || setImmediate(...)
ListenerSchedules(isScheduled) == ~isScheduled

\* _warningEmitter.emit('warning', _warningMap): the listeners run in
\* registration order, each one scheduling at most one callback
EmitScheduled(ls, sched) ==
  [o \in Overlays |->
     sched[o] \/ \E i \in 1..Len(ls) : ls[i] = o /\ ListenerSchedules(sched[o])]

EmitImmediates(ls, sched, imm) ==
  LET Schedules(o) == ListenerSchedules(sched[o]) IN imm \o SelectSeq(ls, Schedules)

\* (mutant) the test without typeof: any value whose text starts with the marker
ErrorIsWarningAnyType(arguments) ==
  StartsWith(String(ArgAt(arguments, 0)), WarningPrefix)

\* console.error's test of its first argument
ErrorIsWarning(arguments) ==
  /\ IsString(ArgAt(arguments, 0))
  /\ StartsWith(ArgAt(arguments, 0).v, WarningPrefix)

\* (mutant) the console.warn wrapper without its test of window
WarnForwardsAlways(isLegacy, window) == TRUE

\* does the console.warn wrapper call the original warn?
WarnForwards(isLegacy, window) == isLegacy \/ window

\* (mutant) a key is ignored only when it equals an element of the list
isWarningIgnoredWhenEqual(ignored, warning) ==
  /\ ignored.t = "array"
  /\ \E i \in 1..Len(ignored.v) : warning = ignored.v[i]

\* isWarningIgnored, with console.ignoredYellowBox as it is at the call
isWarningIgnored(ignored, warning) ==
  /\ ignored.t = "array"
  /\ \E i \in 1..Len(ignored.v) : StartsWith(warning, ignored.v[i])

\* ----------------------------------------------------------- the overlay
\* `if (warning)`: a non-empty string
Truthy(warning) == warning.t = "string" /\ Len(warning.v) > 0

\* dismissWarning's change of the Map
DismissedMap(m, warning) ==
  IF Truthy(warning) THEN MapDelete(m, warning.v) ELSE <<>>

\* dismissWarning's new this.state.inspecting
DismissedInspecting(insp, warning) ==
  IF Truthy(warning) /\ insp # warning THEN insp ELSE Null

NotRendered == [t |-> "none"]

\* (mutant) render() without its test of console.disableYellowBox
RendersNullWhenEmpty(disable, m) == Len(m) = 0

\* render()'s first test: console.disableYellowBox || warningMap.size === 0
RendersNull(disable, m) == disable \/ Len(m) = 0

\* render(): null when disabled or when the Map is empty; otherwise a row
\* for each entry that is not ignored, and the inspector when inspecting
Render(disable, ignored, m, insp) ==
  IF RendersNull(disable, m)
  THEN [t |-> "render", element |-> "null", rows |-> <<>>, inspector |-> Null,
        warningMap |-> m]
  ELSE LET Shown(e) == ~isWarningIgnored(ignored, e.warning)
       IN [t |-> "render", element |-> "div", rows |-> SelectSeq(m, Shown),
           inspector |-> IF insp # Null
                         THEN [t |-> "WarningInspector", warning |-> insp.v,
                               count |-> MapGet(m, insp.v)]
                         ELSE Null,
           warningMap |-> m]

\* (mutant) the listener calls setState itself, inside emit
EmitRenderedNow(ls, renders, disable, ignored, m, insp) ==
  [o \in Overlays |->
     IF renders[o].t = "render" /\ \E i \in 1..Len(ls) : ls[i] = o
     THEN Render(disable, ignored, m, insp[o])
     ELSE renders[o]]

\* what the instances display once emit has returned: the listener only
\* schedules, its setState is inside the setImmediate callback
EmitRendered(ls, renders, disable, ignored, m, insp) == renders

\* ---------------------------------------------------------------- history
Op(op, o, arguments, forwarded, call, key, rendered, threw) ==
  [op |-> op, o |-> o, arguments |-> arguments, forwarded |-> forwarded,
   call |-> call, key |-> key, rendered |-> rendered, threw |-> threw, emits |-> 0,
   window |-> TRUE]

NoKey == [t |-> "none"]

\* one more operation of the run
Step == steps < MaxSteps /\ steps' = steps + 1

\* the record calls per key since the key was last absent from the Map
Since(m, recorded) ==
  [k \in AllKeys \cup TrailingKeys |->
     IF ~MapHas(m, k) THEN 0
     ELSE sinceAbsent[k] + (IF k \in recorded THEN 1 ELSE 0)]

\* ------------------------------------------------------------------- Init
Init ==
  /\ production \in BOOLEAN
  /\ legacy = FALSE
  /\ warningMap = <<>>
  /\ listeners = <<>>
  /\ ignoredYellowBox = Undefined
  /\ disableYellowBox = FALSE
  /\ status = [o \in Overlays |-> "new"]
  /\ inspecting = [o \in Overlays |-> Null]
  /\ scheduled = [o \in Overlays |-> FALSE]
  /\ lastRender = [o \in Overlays |-> NotRendered]
  /\ immediates = <<>>
  /\ received = [o \in Overlays |-> 0]
  /\ sinceAbsent = [k \in AllKeys \cup TrailingKeys |-> 0]
  /\ lastRecorded = NoKey
  /\ lastOp = Op("init", "none", <<>>, <<>>, "none", NoKey, {}, FALSE)
  /\ steps = 0

\* ---------------------------------------------------------------- actions
\* updateWarningMap once the key is built: count, then emit to the listeners
UpdateWarningMap(warning) ==
  /\ warningMap' = Counted(warningMap, warning)
  /\ scheduled' = EmitScheduled(listeners, scheduled)
  /\ immediates' = EmitImmediates(listeners, scheduled, immediates)
  /\ lastRender' = EmitRendered(listeners, lastRender, disableYellowBox,
                                ignoredYellowBox, warningMap', inspecting)
  /\ received' = [o \in Overlays |->
                    IF \E i \in 1..Len(listeners) : listeners[i] = o
                    THEN received[o] + 1 ELSE received[o]]
  /\ sinceAbsent' = Since(warningMap', {warning})
  /\ lastRecorded' = [t |-> "map", m |-> warningMap']

\* one call of a console entry point: `window` is whether typeof window is
\* not 'undefined' at the call, `forwards` whether the original is called,
\* `records` whether updateWarningMap is
Console(op, arguments, window, forwards, records) ==
  LET throws == records /\ StringifyThrows(legacy, arguments)
      updates == records /\ ~throws
      warning == KeyOf[arguments]
  IN /\ Step
     /\ updates /\ MapHas(warningMap, warning) => MapGet(warningMap, warning).v < MaxCount
     /\ IF updates
        THEN UpdateWarningMap(warning)
        ELSE UNCHANGED <<warningMap, scheduled, immediates, lastRender, received,
                         sinceAbsent, lastRecorded>>
     /\ lastOp' = [Op(op, "none", arguments,
                      IF forwards THEN <<arguments>> ELSE <<>>,
                      IF records THEN "updateWarningMap" ELSE "none",
                      IF updates THEN Str(warning) ELSE NoKey, {}, throws)
                     EXCEPT !.window = window]
     /\ UNCHANGED <<env, listeners, ignoredYellowBox, disableYellowBox, status,
                    inspecting>>

\* console.error(...arguments); in production the original is in place
ConsoleError(arguments) ==
  Console("console.error", arguments, TRUE, TRUE,
          ~production /\ ErrorIsWarning(arguments))

\* console.warn(...arguments); in production the original is in place
ConsoleWarn(arguments, window) ==
  Console("console.warn", arguments, window,
          production \/ WarnForwards(legacy, window), ~production)

\* constructor, first render, componentDidMount
Mount(o) ==
  /\ Step
  /\ status[o] = "new"
  /\ o = "o2" => status["o1"] # "new"
  /\ status' = [status EXCEPT ![o] = "mounted"]
  /\ inspecting' = [inspecting EXCEPT ![o] = Null]
  /\ lastRender' = [lastRender EXCEPT ![o] =
                      Render(disableYellowBox, ignoredYellowBox, warningMap, Null)]
  /\ listeners' = Append(listeners, o)
  /\ lastOp' = Op("mount", o, <<>>, <<>>, "none", NoKey, {o}, FALSE)
  /\ UNCHANGED <<env, received, warningMap, ignoredYellowBox, disableYellowBox, scheduled,
                 immediates, sinceAbsent, lastRecorded>>

\* componentWillUnmount. addListener of 'events' returns the emitter, which
\* has no `remove`: src/index.js skips the call, the single-file index.js
\* makes it and raises a TypeError, after which React may or may not have
\* taken the instance down. Neither removes the listener.
Unmount(o) ==
  /\ Step
  /\ status[o] = "mounted"
  /\ \E gone \in BOOLEAN :
       /\ ~legacy => gone
       /\ status' = [status EXCEPT ![o] = IF gone THEN "unmounted" ELSE "mounted"]
       /\ lastRender' = [lastRender EXCEPT ![o] = IF gone THEN NotRendered ELSE @]
  /\ lastOp' = Op("unmount", o, <<>>, <<>>, "none", NoKey, {}, legacy)
  /\ UNCHANGED <<env, received, warningMap, listeners, ignoredYellowBox, disableYellowBox,
                 inspecting, scheduled, immediates, sinceAbsent, lastRecorded>>

\* the oldest setImmediate callback: scheduled = null; this.setState({warningMap}),
\* which React ignores for an instance that is no longer mounted
RunImmediate ==
  /\ Step
  /\ Len(immediates) > 0
  /\ LET o == Head(immediates)
     IN /\ immediates' = Tail(immediates)
        /\ scheduled' = [scheduled EXCEPT ![o] = FALSE]
        /\ lastRender' = [lastRender EXCEPT ![o] =
              IF status[o] = "mounted"
              THEN Render(disableYellowBox, ignoredYellowBox, warningMap, inspecting[o])
              ELSE @]
        /\ received' = [received EXCEPT ![o] = 0]
        /\ lastOp' = [Op("immediate", o, <<>>, <<>>, "none", NoKey,
                         IF status[o] = "mounted" THEN {o} ELSE {}, FALSE)
                        EXCEPT !.emits = received[o]]
  /\ UNCHANGED <<env, warningMap, listeners, ignoredYellowBox, disableYellowBox,
                 status, inspecting, sinceAbsent, lastRecorded>>

\* this.dismissWarning(warning), then the render its setState causes;
\* `closes`: the click also reaches the inspector's onClose
Dismiss(op, o, warning, closes) ==
  /\ Step
  /\ warningMap' = DismissedMap(warningMap, warning)
  /\ inspecting' = [inspecting EXCEPT ![o] =
                      IF closes THEN Null ELSE DismissedInspecting(@, warning)]
  /\ lastRender' = [lastRender EXCEPT ![o] =
                      Render(disableYellowBox, ignoredYellowBox, warningMap', inspecting'[o])]
  /\ sinceAbsent' = Since(warningMap', {})
  /\ lastRecorded' = IF warningMap' = warningMap THEN lastRecorded ELSE NoKey
  /\ lastOp' = Op(op, o, <<>>, <<>>, "dismissWarning", warning, {o}, FALSE)
  /\ UNCHANGED <<env, received, listeners, ignoredYellowBox, disableYellowBox, status,
                 scheduled, immediates>>

\* a call of the instance's dismissWarning with a key, or with null
DismissWarning(o, warning) ==
  /\ status[o] = "mounted"
  /\ Dismiss("dismissWarning", o, warning, FALSE)

\* setState({inspecting: ...}) and the render it causes
SetInspecting(op, o, insp) ==
  /\ Step
  /\ inspecting' = [inspecting EXCEPT ![o] = insp]
  /\ lastRender' = [lastRender EXCEPT ![o] =
                      Render(disableYellowBox, ignoredYellowBox, warningMap, insp)]
  /\ lastOp' = Op(op, o, <<>>, <<>>, "none", NoKey, {o}, FALSE)
  /\ UNCHANGED <<env, received, warningMap, listeners, ignoredYellowBox, disableYellowBox,
                 status, scheduled, immediates, sinceAbsent, lastRecorded>>

\* a click on the i-th displayed row
RowClick(o, i) ==
  /\ status[o] = "mounted"
  /\ lastRender[o].element = "div"
  /\ i \in 1..Len(lastRender[o].rows)
  /\ SetInspecting("onClick", o, Str(lastRender[o].rows[i].warning))

InspectorShown(o) ==
  /\ status[o] = "mounted"
  /\ lastRender[o].element = "div"
  /\ lastRender[o].inspector # Null

\* a click on the inspector outside its buttons
InspectorClose(o) ==
  /\ InspectorShown(o)
  /\ SetInspecting("onClose", o, Null)

\* a click on the inspector's Dismiss button: onDismiss, then the click
\* bubbles to the inspector's onClose
InspectorDismiss(o) ==
  /\ InspectorShown(o)
  /\ Dismiss("onDismiss", o, Str(lastRender[o].inspector.warning), TRUE)

\* a click on the inspector's Dismiss All button; in the single-file
\* index.js the button has no handler and the click only reaches onClose
InspectorDismissAll(o) ==
  /\ InspectorShown(o)
  /\ IF legacy
     THEN SetInspecting("onClose", o, Null)
     ELSE Dismiss("onDismissAll", o, Null, TRUE)

\* React renders the instance again because its parent rendered
ParentRender(o) ==
  /\ Step
  /\ status[o] = "mounted"
  /\ lastRender' = [lastRender EXCEPT ![o] =
                      Render(disableYellowBox, ignoredYellowBox, warningMap, inspecting[o])]
  /\ lastRender'[o] # lastRender[o]
  /\ lastOp' = Op("render", o, <<>>, <<>>, "none", NoKey, {o}, FALSE)
  /\ UNCHANGED <<env, received, warningMap, listeners, ignoredYellowBox, disableYellowBox,
                 status, inspecting, scheduled, immediates, sinceAbsent, lastRecorded>>

\* console.disableYellowBox = b
SetDisable(b) ==
  /\ Step
  /\ b # disableYellowBox
  /\ disableYellowBox' = b
  /\ lastOp' = Op("disableYellowBox", "none", <<>>, <<>>, "none", NoKey, {}, FALSE)
  /\ UNCHANGED <<env, received, warningMap, listeners, ignoredYellowBox, status, inspecting,
                 scheduled, lastRender, immediates, sinceAbsent, lastRecorded>>

\* console.ignoredYellowBox = list
SetIgnored(list) ==
  /\ Step
  /\ list # ignoredYellowBox
  /\ ignoredYellowBox' = list
  /\ lastOp' = Op("ignoredYellowBox", "none", <<>>, <<>>, "none", NoKey, {}, FALSE)
  /\ UNCHANGED <<env, received, warningMap, listeners, disableYellowBox, status, inspecting,
                 scheduled, lastRender, immediates, sinceAbsent, lastRecorded>>

Next ==
  \/ \E arguments \in ConsoleArgs : ConsoleError(arguments)
  \/ \E arguments \in ConsoleArgs, window \in BOOLEAN : ConsoleWarn(arguments, window)
  \/ \E o \in Overlays : Mount(o)
  \/ \E o \in Overlays : Unmount(o)
  \/ RunImmediate
  \/ \E o \in Overlays, k \in AllKeys : DismissWarning(o, Str(k))
  \/ \E o \in Overlays : DismissWarning(o, Null)
  \/ \E o \in Overlays, i \in 1..Cardinality(AllKeys) : RowClick(o, i)
  \/ \E o \in Overlays : InspectorClose(o)
  \/ \E o \in Overlays : InspectorDismiss(o)
  \/ \E o \in Overlays : InspectorDismissAll(o)
  \/ \E o \in Overlays : ParentRender(o)
  \/ \E b \in BOOLEAN : SetDisable(b)
  \/ \E list \in IgnoreLists : SetIgnored(list)

Spec == Init /\ [][Next]_vars

\* the specification of the single-file index.js
InitLegacy ==
  /\ production \in BOOLEAN
  /\ legacy = TRUE
  /\ warningMap = <<>>
  /\ listeners = <<>>
  /\ ignoredYellowBox = Undefined
  /\ disableYellowBox = FALSE
  /\ status = [o \in Overlays |-> "new"]
  /\ inspecting = [o \in Overlays |-> Null]
  /\ scheduled = [o \in Overlays |-> FALSE]
  /\ lastRender = [o \in Overlays |-> NotRendered]
  /\ immediates = <<>>
  /\ received = [o \in Overlays |-> 0]
  /\ sinceAbsent = [k \in AllKeys \cup TrailingKeys |-> 0]
  /\ lastRecorded = NoKey
  /\ lastOp = Op("init", "none", <<>>, <<>>, "none", NoKey, {}, FALSE)
  /\ steps = 0

SpecLegacy == InitLegacy /\ [][Next]_vars

\* both builds, called with the trailing-argument lists as well
InitEither ==
  /\ production \in BOOLEAN
  /\ legacy \in BOOLEAN
  /\ warningMap = <<>>
  /\ listeners = <<>>
  /\ ignoredYellowBox = Undefined
  /\ disableYellowBox = FALSE
  /\ status = [o \in Overlays |-> "new"]
  /\ inspecting = [o \in Overlays |-> Null]
  /\ scheduled = [o \in Overlays |-> FALSE]
  /\ lastRender = [o \in Overlays |-> NotRendered]
  /\ immediates = <<>>
  /\ received = [o \in Overlays |-> 0]
  /\ sinceAbsent = [k \in AllKeys \cup TrailingKeys |-> 0]
  /\ lastRecorded = NoKey
  /\ lastOp = Op("init", "none", <<>>, <<>>, "none", NoKey, {}, FALSE)
  /\ steps = 0

\* the console calls with every argument list, and what brings a key back
\* to absent: an overlay that mounts, is notified and dismisses a row
NextTrailing ==
  \/ \E arguments \in ConsoleArgs \cup TrailingConsoleArgs : ConsoleError(arguments)
  \/ \E arguments \in ConsoleArgs \cup TrailingConsoleArgs, window \in BOOLEAN :
       ConsoleWarn(arguments, window)
  \/ \E o \in Overlays : Mount(o)
  \/ RunImmediate
  \/ \E o \in Overlays, k \in AllKeys \cup TrailingKeys : DismissWarning(o, Str(k))

SpecTrailing == InitEither /\ [][NextTrailing]_vars

\* ------------------------------------------------------- what is checked
\* the pending setImmediate callbacks of instance o
Pending(o, imm) == Cardinality({i \in 1..Len(imm) : imm[i] = o})

\* o's listener is registered on the emitter
Subscribed(o) == \E i \in 1..Len(listeners) : listeners[i] = o

\* the count of a key, 0 when it is absent
CountOf(m, k) == IF MapHas(m, k) THEN MapGet(m, k).v ELSE 0

Entries(m) == {m[i] : i \in 1..Len(m)}

\* the step is a call of updateWarningMap that returned, for this key
Records(op) == op.call = "updateWarningMap" /\ ~op.threw

\* C1: every key present in the Map has a count of at least 1, equal to the
\* number of record calls for that key since the key was last absent.
C1_CountIsRecordCalls ==
  \A i \in 1..Len(warningMap) :
    /\ warningMap[i].count >= 1
    /\ warningMap[i].count = sinceAbsent[warningMap[i].warning]

\* a dismissal has removed a key and a key recorded twice remains
C1_Witness ==
  /\ lastOp.call = "dismissWarning"
  /\ lastOp.key.t = "string"
  /\ ~MapHas(warningMap, lastOp.key.v)
  /\ \E i \in 1..Len(warningMap) : warningMap[i].count = 2

\* C2: dismiss(k), for any key k that record can produce, the empty string
\* included, removes the entry of k if there is one and leaves every other
\* entry and its count as they were.
C2_DismissRemovesOnlyItsKey ==
  [][(lastOp'.call = "dismissWarning" /\ lastOp'.key.t = "string")
       => Entries(warningMap') =
            {e \in Entries(warningMap) : e.warning # lastOp'.key.v}]_vars

\* C3: after a record call every subscribed instance has exactly one
\* deferred callback pending, however many record calls came before it; when
\* the callback runs none is left, and the mapping the instance then reads
\* is the mapping as the last record call left it.
C3_OneDeferredNotification ==
  [][/\ Records(lastOp')
          => \A o \in Overlays : Subscribed(o) => Pending(o, immediates') = 1
     /\ lastOp'.op = "immediate"
          => /\ Pending(lastOp'.o, immediates') = 0
             /\ status[lastOp'.o] = "mounted"
                  => /\ lastOp'.rendered = {lastOp'.o}
                     /\ lastRender'[lastOp'.o].warningMap = warningMap'
                     /\ lastRecorded.t = "map"
                          => lastRender'[lastOp'.o].warningMap = lastRecorded.m]_vars

\* one callback has delivered, to a mounted instance, the mapping left by
\* two or more record calls
C3_Witness ==
  /\ lastOp.op = "immediate"
  /\ lastOp.emits >= 2
  /\ lastOp.rendered = {lastOp.o}
  /\ lastRecorded.t = "map"
  /\ lastRender[lastOp.o].warningMap = lastRecorded.m
  /\ Pending(lastOp.o, immediates) = 0

\* C4: a call of console.error or console.warn, and the record call in it,
\* updates no instance's state and renders none.
C4_NoSynchronousUpdate ==
  [][lastOp'.op \in {"console.error", "console.warn"}
       => /\ lastRender' = lastRender
          /\ inspecting' = inspecting
          /\ lastOp'.rendered = {}]_vars

\* a record call has returned, a mounted instance has its callback pending
\* and still displays the mapping as it was before
C4_Witness ==
  /\ Records(lastOp)
  /\ \E o \in Overlays :
       /\ status[o] = "mounted"
       /\ Pending(o, immediates) = 1
       /\ lastRender[o].warningMap # warningMap

\* C5: a record call made after an instance was unmounted schedules no
\* notification for that instance.
C5_NoScheduleAfterUnmount ==
  [][Records(lastOp')
       => \A o \in Overlays :
            status[o] = "unmounted" => Pending(o, immediates') = Pending(o, immediates)]_vars

\* C6: outside production console.error calls record exactly when its first
\* argument is a string that starts with 'Warning: ', and console.warn always
\* does; a record call that returns counts its key once more; in production
\* neither changes the Map.
C6_RecordedIffWarning ==
  [][/\ lastOp'.op = "console.error"
          => (lastOp'.call = "updateWarningMap"
                <=> /\ ~production
                    /\ Len(lastOp'.arguments) > 0
                    /\ lastOp'.arguments[1].t = "string"
                    /\ StartsWith(lastOp'.arguments[1].v, WarningPrefix))
     /\ lastOp'.op = "console.warn"
          => (lastOp'.call = "updateWarningMap" <=> ~production)
     /\ lastOp'.op \in {"console.error", "console.warn"}
          => IF Records(lastOp')
             THEN CountOf(warningMap', lastOp'.key.v) = CountOf(warningMap, lastOp'.key.v) + 1
             ELSE warningMap' = warningMap]_vars

\* console.error has recorded a text that starts with the marker
C6_Witness ==
  /\ lastOp.op = "console.error"
  /\ Records(lastOp)
  /\ ~production
  /\ MapHas(warningMap, WarningA)

\* C7 as stated: every call of a wrapped console.error or console.warn calls
\* the original once with the same arguments.
C7_AlwaysForwards ==
  (lastOp.op \in {"console.error", "console.warn"} /\ ~production)
    => lastOp.forwarded = <<lastOp.arguments>>

\* C7 as amended: console.error calls the original once with the same
\* arguments; the console.warn of src/common.js does so when a global window
\* is defined and does not call the original at all otherwise; the
\* console.warn of the single-file index.js always does.
C7_ForwardsUnlessNoWindow ==
  /\ lastOp.op = "console.error" => lastOp.forwarded = <<lastOp.arguments>>
  /\ lastOp.op = "console.warn"
       => lastOp.forwarded =
            IF production \/ legacy \/ lastOp.window THEN <<lastOp.arguments>> ELSE <<>>

\* the wrapped console.warn, with no window, has recorded without forwarding
C7_Witness ==
  /\ lastOp.op = "console.warn"
  /\ ~production /\ ~lastOp.window /\ ~legacy
  /\ Records(lastOp)
  /\ lastOp.forwarded = <<>>

\* C8: after dismiss(key) or dismissAll() every mounted instance either
\* displays the changed mapping or has a notification pending.
C8_DismissNotifiesAll ==
  [][lastOp'.call = "dismissWarning"
       => \A o \in Overlays :
            status'[o] = "mounted"
              => \/ lastRender'[o].warningMap = warningMap'
                 \/ Pending(o, immediates') >= 1]_vars

\* the elements of the ignore list, none when it is not an array
IgnorePrefixes(ignored) ==
  IF ignored.t = "array" THEN {ignored.v[i] : i \in 1..Len(ignored.v)} ELSE {}

\* some element of the ignore list is, character by character, the start of the key
HasIgnoredPrefix(ignored, warning) ==
  \E prefix \in IgnorePrefixes(ignored) :
    \E n \in 0..Len(warning) : SubSeq(warning, 1, n) = prefix

\* the entries whose key has no ignored prefix, in the Map's order
Displayable(ignored, m) ==
  LET Shown(e) == ~HasIgnoredPrefix(ignored, e.warning) IN SelectSeq(m, Shown)

\* a record call counts its key once more, ignored or not
CountsIgnoredToo(op, ignored, m, mNext) ==
  (Records(op) /\ HasIgnoredPrefix(ignored, op.key.v))
    => CountOf(mNext, op.key.v) = CountOf(m, op.key.v) + 1

\* C9 as stated: every render pass displays exactly the entries whose key has
\* no element of the ignore list as a prefix, and record counts ignored keys.
C9_RowsAreTheNotIgnored ==
  [][/\ \A o \in lastOp'.rendered :
          lastRender'[o].rows = Displayable(ignoredYellowBox', warningMap')
     /\ CountsIgnoredToo(lastOp', ignoredYellowBox, warningMap, warningMap')]_vars

\* C9 as amended: every render pass made while the disable flag is false
\* displays exactly the entries whose key has no element of the ignore list
\* (as it is at that render) as a literal, case-sensitive prefix; a render
\* pass made while the flag is true displays no row; record counts a key
\* that has an ignored prefix as it does any other key.
C9_RowsAreTheNotIgnoredUnlessDisabled ==
  [][/\ \A o \in lastOp'.rendered :
          lastRender'[o].rows =
            IF disableYellowBox' THEN <<>>
            ELSE Displayable(ignoredYellowBox', warningMap')
     /\ CountsIgnoredToo(lastOp', ignoredYellowBox, warningMap, warningMap')]_vars

\* a render pass has hidden the ignored 'Warning: a', recorded twice, and
\* displayed another entry
C9_Witness ==
  /\ ~disableYellowBox
  /\ HasIgnoredPrefix(ignoredYellowBox, WarningA)
  /\ CountOf(warningMap, WarningA) = 2
  /\ \E o \in lastOp.rendered :
       /\ Len(lastRender[o].rows) >= 1
       /\ Len(lastRender[o].rows) < Len(warningMap)

\* C10: a render pass made while console.disableYellowBox is true returns
\* null, with no row and no inspector, whatever the Map holds; a record call
\* made while it is true counts its key once more.
C10_DisabledRendersNothing ==
  [][/\ \A o \in lastOp'.rendered :
          disableYellowBox'
            => /\ lastRender'[o].element = "null"
               /\ lastRender'[o].rows = <<>>
               /\ lastRender'[o].inspector = Null
     /\ (Records(lastOp') /\ disableYellowBox)
          => CountOf(warningMap', lastOp'.key.v) = CountOf(warningMap, lastOp'.key.v) + 1]_vars

\* a render pass while disabled, of an instance that is inspecting a key of
\* a Map that is not empty
C10_Witness ==
  /\ disableYellowBox
  /\ \E o \in lastOp.rendered :
       /\ Len(lastRender[o].warningMap) > 0
       /\ inspecting[o] # Null
       /\ lastRender[o].element = "null"

\* the keys of the Map, in its order
KeysOf(m) == [i \in 1..Len(m) |-> m[i].warning]

\* the place of a present key in the Map
PlaceOf(m, k) == CHOOSE i \in 1..Len(m) : m[i].warning = k

\* rows are entries of m, in the order m has them
InOrderOf(rows, m) ==
  /\ \A i \in 1..Len(rows) : rows[i] \in Entries(m)
  /\ \A i, j \in 1..Len(rows) :
       i < j => PlaceOf(m, rows[i].warning) < PlaceOf(m, rows[j].warning)

\* C11: a record call for a present key leaves the order of the Map's keys
\* as it is, and for an absent key (never seen, or dismissed since) puts the
\* key last with count 1; a dismissal keeps the order of the keys that
\* remain; the rows of every render pass are in the Map's order.
C11_FirstSeenOrder ==
  [][/\ Records(lastOp')
          => IF MapHas(warningMap, lastOp'.key.v)
             THEN KeysOf(warningMap') = KeysOf(warningMap)
             ELSE /\ KeysOf(warningMap') = Append(KeysOf(warningMap), lastOp'.key.v)
                  /\ warningMap'[Len(warningMap')].count = 1
     /\ lastOp'.call = "dismissWarning"
          => \A i, j \in 1..Len(warningMap') :
               i < j => /\ MapHas(warningMap, warningMap'[i].warning)
                        /\ MapHas(warningMap, warningMap'[j].warning)
                        /\ PlaceOf(warningMap, warningMap'[i].warning)
                             < PlaceOf(warningMap, warningMap'[j].warning)
     /\ \A o \in lastOp'.rendered : InOrderOf(lastRender'[o].rows, warningMap')]_vars

\* a key that an instance still displays first has been dismissed and
\* recorded again: it is now last of two, with count 1
C11_Witness ==
  /\ Records(lastOp)
  /\ Len(warningMap) = 2
  /\ warningMap[2].warning = lastOp.key.v
  /\ warningMap[2].count = 1
  /\ \E o \in Overlays :
       /\ lastRender[o].t = "render"
       /\ Len(lastRender[o].rows) = 2
       /\ lastRender[o].rows[1].warning = lastOp.key.v

\* the text json-stringify-safe puts in place of a reference to the root
CircularMarker == <<"[", "C", "i", "r", "c", "u", "l", "a", "r", " ", "~", "]">>

\* text occurs somewhere in s
Contains(s, text) ==
  \E i \in 1..(Len(s) - Len(text) + 1) : SubSeq(s, i, i + Len(text) - 1) = text

\* C12: a console call that calls record returns without raising and counts
\* exactly one key once more; with a trailing argument that refers to itself
\* the key holds the marker [Circular ~].
C12_RecordNeverThrows ==
  [][lastOp'.call = "updateWarningMap"
       => /\ ~lastOp'.threw
          /\ lastOp'.key.t = "string"
          /\ CountOf(warningMap', lastOp'.key.v) = CountOf(warningMap, lastOp'.key.v) + 1
          /\ \A e \in Entries(warningMap) :
               e.warning # lastOp'.key.v => e \in Entries(warningMap')
          /\ Len(warningMap') <= Len(warningMap) + 1
          /\ Circular \in {lastOp'.arguments[i] : i \in 2..Len(lastOp'.arguments)}
               => Contains(lastOp'.key.v, CircularMarker)]_vars

\* C13: while o1 is the only overlay ever mounted, the key it inspects is
\* null or a key of the Map; a dismiss of the inspected key or of all sets
\* it to null, and a dismiss of a different key leaves it as it was.
C13_InspectedKeyIsPresent ==
  [][status'["o1"] = "mounted" /\ status'["o2"] = "new"
       => /\ \/ inspecting'["o1"] = Null
             \/ MapHas(warningMap', inspecting'["o1"].v)
          /\ lastOp'.call = "dismissWarning"
               => IF lastOp'.key = Null \/ lastOp'.key = inspecting["o1"]
                  THEN inspecting'["o1"] = Null
                  ELSE inspecting'["o1"] = inspecting["o1"]]_vars

====
